---------------------------- MODULE Spec2Model ----------------------------
(***************************************************************************)
(* Model of spectrum-view.py: the VesnaSpectrumPlot spectrogram plotter    *)
(* (its constructor and its sweep callback) and the option validation of   *)
(* main().                                                                 *)
(*                                                                         *)
(* Numbers.  The program works on floats; the model is exact:              *)
(*   - the two frequency axes x1, x2 are linspaces over the same band, so  *)
(*     they are kept as offsets from start_freq, measured in Span(n) equal *)
(*     parts of the band, which puts every point of both axes on an        *)
(*     integer;                                                            *)
(*   - a power value p (dBm) is kept as the integer p * Scale, where Scale *)
(*     is the common denominator of the cubic through four points, so the  *)
(*     interpolated values are integers too;                               *)
(*   - NaN stands for a non-finite sample.                                 *)
(*                                                                         *)
(* Python 2 semantics are assumed (the script uses optparse and            *)
(* /usr/bin/python): `/` on two ints is floor division.                    *)
(*                                                                         *)
(* Three specifications: SpecMain is main() from the command line to the   *)
(* constructed plotter; Spec is the running plotter over a few sweeps of   *)
(* every kind; SpecLong is the running plotter over MaxSweeps sweeps.      *)
(***************************************************************************)
EXTENDS Integers, Sequences, FiniteSets, TLC

(***************************************************************************)
(* Program constants                                                       *)
(***************************************************************************)
H == 256          \* rows of self.A
M == 256          \* columns of self.A, and points of the target axis x2
FLOOR == -100     \* value the buffer is filled with at creation
CEILING == -20    \* upper end of the colour scale the image is created with
SKIP_LEN == 256   \* callback: len(sweep.data) < 256
LAST_LINE == 254  \* callback: self.line > 254
ROLL_SHIFT == 256 \* callback: roll(self.A, -256)
CUBIC_MIN == 4    \* interp1d(kind='cubic') needs at least 4 points
NaN == -2147483647

RF_UPPER == 866000000
RF_LOWER == 45000000
MIN_STEP == 1000
DEFAULT_LOWER == 554000000
DEFAULT_UPPER == 570000000
DEFAULT_STEP == 2000000

(***************************************************************************)
(* Bounds of the model                                                     *)
(***************************************************************************)
MaxSweeps == 300     \* sweeps accepted in one behaviour of SpecLong
ShortSweeps == 3     \* sweeps accepted in one behaviour of Spec
Batch == 253         \* sweeps of the batch that may open a behaviour of SpecLong

(***************************************************************************)
(* Arithmetic helpers                                                      *)
(***************************************************************************)
Abs(n) == IF n < 0 THEN -n ELSE n

RECURSIVE GCD(_, _)
GCD(a, b) == IF b = 0 THEN a ELSE GCD(b, a % b)

LCM(a, b) == (a \div GCD(a, b)) * b

\* Python 2 `/` on two ints: floor division (TLA+ \div floors as well).
IntDiv(a, b) == a \div b

(***************************************************************************)
(* __init__: the axes                                                      *)
(***************************************************************************)
\* nsteps = round((end_freq - start_freq)/step)+1; the operands are ints
\* (optparse type="int" and int defaults), so `/` already yields an integer
\* and round() leaves it.
NSteps(start_freq, end_freq, step) == IntDiv(end_freq - start_freq, step) + 1

\* Number of equal parts the band is measured in for an n-point source axis.
Span(n) == IF n > 1 THEN LCM(n - 1, M - 1) ELSE M - 1

\* linspace(start_freq, end_freq, num) as offsets from start_freq in units of
\* (end_freq - start_freq)/span: point i lies at i * (stop - start)/(num - 1).
\* Mutant: linspace without its end point.
Linspace_NoEnd(span, num) == [i \in 0 .. num - 1 |-> i * (span \div num)]

\* A single point lies at start.
Linspace(span, num) ==
    [i \in 0 .. num - 1 |-> IF num = 1 THEN 0 ELSE i * (span \div (num - 1))]



(***************************************************************************)
(* State                                                                   *)
(***************************************************************************)
VARIABLES
    A,            \* self.A: the image buffer, A[row][column]
    line,         \* self.line: the row the next sweep is written to
    x1,           \* self.x1: source axis
    x2,           \* self.x2: target axis
    interpolator, \* self.interpolator: the data the last interp1d was built on
    image,        \* the array last handed to self.image.set_data
    draws,        \* number of self.fig.canvas.draw() calls so far
    sweep,        \* sweep.data of the last callback invocation
    result,       \* outcome of the last callback invocation
    accepted,     \* history: number of callback invocations that returned True
    rows,         \* history: the interpolated rows of those invocations, in order
    pc,           \* main(): position
    options,      \* main(): options as parsed from the command line
    cfg           \* main(): lower_freq, upper_freq, step handed to the plotter

vars == <<A, line, x1, x2, interpolator, image, draws, sweep, result,
          accepted, rows, pc, options, cfg>>

plotterVars == <<A, line, x1, x2, interpolator, image, draws, sweep, result,
                 accepted, rows>>

mainVars == <<pc, options, cfg>>

Size(f) == Cardinality(DOMAIN f)

(***************************************************************************)
(* interp1d(self.x1, sweep.data, kind='cubic') and its evaluation          *)
(***************************************************************************)
\* The constructor raises ValueError when x and y differ in length and when
\* there are too few points for a cubic.
Interp1dRaises(x, y) == Size(x) # Size(y) \/ Size(x) < CUBIC_MIN

RECURSIVE ProdDiff(_, _, _, _)
\* product of (t - x[k]) over the k in 0..n-1 other than i
ProdDiff(x, t, i, n) ==
    IF n = 0 THEN 1
    ELSE (IF n - 1 = i THEN 1 ELSE t - x[n - 1]) * ProdDiff(x, t, i, n - 1)

\* Denominator of the i-th cardinal polynomial of the axis x.
Den(x, i) == ProdDiff(x, x[i], i, Size(x))

RECURSIVE LCMDen(_, _)
LCMDen(x, n) == IF n = 0 THEN 1 ELSE LCM(Abs(Den(x, n - 1)), LCMDen(x, n - 1))

\* Fixed-point denominator of the stored power values: the common
\* denominator of the cubic through the points of a CUBIC_MIN-point axis.
Scale == LCMDen(Linspace(Span(CUBIC_MIN), CUBIC_MIN), CUBIC_MIN)

RECURSIVE CubicSum(_, _, _, _)
\* Scale * sum over i < n of y[i] * prod_{k # i} (t - x[k]) / (x[i] - x[k])
CubicSum(x, y, t, n) ==
    IF n = 0 THEN 0
    ELSE y[n - 1] * (ProdDiff(x, t, n - 1, Size(x)) * (Scale \div Den(x, n - 1)))
         + CubicSum(x, y, t, n - 1)

HasNaN(y) == \E i \in DOMAIN y : y[i] = NaN

\* Index of the point of the axis x that lies at t.
NodeAt(x, t) == CHOOSE i \in DOMAIN x : x[i] = t

\* self.interpolator(self.x2).  A NaN among the samples makes every output
\* NaN.  With CUBIC_MIN points the not-a-knot cubic spline is the one cubic
\* through all of them.  On a longer axis the spline is modelled only at the
\* axis' own points, where it returns the samples; callback evaluates none
\* there, since it skips every sweep of SKIP_LEN or more samples.
Interpolate(x, y, xnew) ==
    IF HasNaN(y) THEN [j \in DOMAIN xnew |-> NaN]
    ELSE IF Size(x) = CUBIC_MIN
    THEN [j \in DOMAIN xnew |-> CubicSum(x, y, xnew[j], Size(x))]
    ELSE [j \in DOMAIN xnew |-> y[NodeAt(x, xnew[j])] * Scale]

(***************************************************************************)
(* callback                                                                *)
(***************************************************************************)
\* Mutant: the array is rolled the other way.
Roll_Down(a, shift) ==
    [r \in 0 .. H - 1 |->
        [c \in 0 .. M - 1 |->
            LET k == (r * M + c + shift) % (H * M)
            IN  a[k \div M][k % M]]]

\* Mutant: the array is not rolled.
Roll_None(a, shift) == a

\* roll(a, shift) without an axis: the array is flattened, rotated by shift
\* elements and given its shape back.
Roll(a, shift) ==
    [r \in 0 .. H - 1 |->
        [c \in 0 .. M - 1 |->
            LET k == (r * M + c - shift) % (H * M)
            IN  a[k \div M][k % M]]]

\* Mutant: the row is clamped to the colour scale before it is written.
WriteRow_Clamped(a, l, data) ==
    [a EXCEPT ![l] = [c \in DOMAIN data |->
                        IF data[c] < FLOOR * Scale THEN FLOOR * Scale
                        ELSE IF data[c] > CEILING * Scale THEN CEILING * Scale
                        ELSE data[c]]]

\* Mutant: the row is written after the cursor has moved.
WriteRow_Next(a, l, data) == [a EXCEPT ![(l + 1) % H] = data]

\* self.A[self.line] = data
WriteRow(a, l, data) == [a EXCEPT ![l] = data]

\* Mutant: the array is handed over before the row is written.
SetData_BeforeWrite(before, written) == before

\* self.image.set_data(self.A) after the row is written: the array displayed.
SetData(before, written) == written

\* Mutant: the wrap starts one row early.
AtEnd_Early(l) == l >= LAST_LINE

\* Mutant: the wrap starts one row late.
AtEnd_Late(l) == l > LAST_LINE + 1

\* if (self.line > 254)
AtEnd(l) == l > LAST_LINE

\* Mutant: a sweep of exactly 256 samples is interpolated.
Coarse_Inclusive(data) == Size(data) <= SKIP_LEN

\* if (len(sweep.data) < 256)
Coarse(data) == Size(data) < SKIP_LEN

\* callback(self, sweep_config, sweep): the plotter after the call (self),
\* what the call returned or raised (ret) and the interpolated row (data).
callback(self, data) ==
    IF Interp1dRaises(self.x1, data)
    THEN [self |-> self, ret |-> "ValueError", data |-> <<>>]
    ELSE LET built == [self EXCEPT !.interpolator = data]
         IN  IF Coarse(data)
             THEN LET row == Interpolate(built.x1, data, built.x2)
                      written == WriteRow(built.A, built.line, row)
                      drawn == [built EXCEPT !.A = written,
                                             !.image = SetData(built.A, written),
                                             !.draws = @ + 1]
                  IN  [self |-> IF AtEnd(drawn.line)
                                THEN [drawn EXCEPT !.A = Roll(drawn.A, -ROLL_SHIFT)]
                                ELSE [drawn EXCEPT !.line = @ + 1],
                       ret |-> "True",
                       data |-> row]
             ELSE [self |-> built, ret |-> "False", data |-> <<>>]

(***************************************************************************)
(* __init__                                                                *)
(***************************************************************************)
\* Mutant: the buffer is created all zero.
Zeros100_NoFloor == [r \in 0 .. H - 1 |-> [c \in 0 .. M - 1 |-> 0]]

\* self.A = zeros(shape=(256,256))-100
Zeros100 == [r \in 0 .. H - 1 |-> [c \in 0 .. M - 1 |-> FLOOR * Scale]]

\* The fields of a new plotter.
NewPlotter(start_freq, end_freq, step) ==
    LET nsteps == NSteps(start_freq, end_freq, step)
    IN  [A |-> Zeros100,
         image |-> Zeros100,
         x1 |-> Linspace(Span(nsteps), nsteps),
         x2 |-> Linspace(Span(nsteps), M),
         line |-> 0,
         draws |-> 1,
         interpolator |-> <<>>]

\* linspace raises ValueError for a negative number of points.
InitRaises(start_freq, end_freq, step) == NSteps(start_freq, end_freq, step) < 0

(***************************************************************************)
(* main: option validation                                                 *)
(***************************************************************************)
\* Python's `c and v or d`: d when c is false or v is falsy (0).
AndOr(c, v, d) == IF c /\ v # 0 THEN v ELSE d

LowerFreq(o) ==
    AndOr(o.start_freq > RF_LOWER /\ o.start_freq < RF_UPPER,
          o.start_freq, DEFAULT_LOWER)

UpperFreq(o) ==
    AndOr(/\ o.end_freq > RF_LOWER
          /\ o.end_freq < RF_UPPER
          /\ o.end_freq > LowerFreq(o),
          o.end_freq, DEFAULT_UPPER)

Step(o) ==
    AndOr(o.step > MIN_STEP /\ (UpperFreq(o) - LowerFreq(o)) > o.step,
          o.step, DEFAULT_STEP)

Validated(o) ==
    [lower_freq |-> LowerFreq(o), upper_freq |-> UpperFreq(o), step |-> Step(o)]

(***************************************************************************)
(* The sweeps the sensor delivers                                          *)
(***************************************************************************)
\* Command lines of the runs explored sweep by sweep: source axes of
\* 3, 4 and 256 points.
RunOptions ==
    { [start_freq |-> DEFAULT_LOWER, end_freq |-> DEFAULT_LOWER + 3 * DEFAULT_STEP,
       step |-> DEFAULT_STEP],
      [start_freq |-> DEFAULT_LOWER, end_freq |-> DEFAULT_LOWER + 2 * DEFAULT_STEP,
       step |-> DEFAULT_STEP],
      [start_freq |-> DEFAULT_LOWER,
       end_freq |-> DEFAULT_LOWER + (SKIP_LEN - 1) * (2 * MIN_STEP),
       step |-> 2 * MIN_STEP] }

SweepLens == { NSteps(Validated(o).lower_freq, Validated(o).upper_freq,
                      Validated(o).step) : o \in RunOptions }

\* Sample i of the k-th sweep: between -120 and 0 dBm, so below and above the
\* advertised [-100, -20]; no two of the first 121 * 121 sweeps are alike.
Sample(k, i) == -120 + ((37 * k + 53 * i + i * (k \div 121)) % 121)

Ramp(n, k) == [i \in 0 .. n - 1 |-> Sample(k, i)]

Flat(n, k) == [i \in 0 .. n - 1 |-> 0]

WithNaN(n, k) == [i \in 0 .. n - 1 |-> IF i = k % n THEN NaN ELSE Sample(k, i)]

\* The sweeps that may arrive as sweep number k: of every length in
\* SweepLens, so well formed for one configuration and of the wrong length
\* for the others.  The varied stream also carries flat and non-finite ones.
Sweeps(k, varied) ==
    UNION { {Ramp(n, k)} \cup
            (IF varied THEN {Flat(n, k), WithNaN(n, k)} ELSE {})
            : n \in SweepLens }

(***************************************************************************)
(* Specifications of the running plotter                                   *)
(***************************************************************************)
Init ==
    /\ pc = "run"
    /\ options \in RunOptions
    /\ cfg = Validated(options)
    /\ LET p == NewPlotter(cfg.lower_freq, cfg.upper_freq, cfg.step)
       IN  /\ A = p.A
           /\ image = p.image
           /\ x1 = p.x1
           /\ x2 = p.x2
           /\ line = p.line
           /\ draws = p.draws
           /\ interpolator = p.interpolator
    /\ sweep = <<>>
    /\ result = "none"
    /\ accepted = 0
    /\ rows = <<>>

\* The plotter and the history of its callback, as one value.
Current ==
    [self |-> [A |-> A, line |-> line, x1 |-> x1, x2 |-> x2,
               interpolator |-> interpolator, image |-> image, draws |-> draws],
     sweep |-> sweep, result |-> result, accepted |-> accepted, rows |-> rows]

Becomes(st) ==
    /\ A' = st.self.A
    /\ line' = st.self.line
    /\ x1' = st.self.x1
    /\ x2' = st.self.x2
    /\ interpolator' = st.self.interpolator
    /\ image' = st.self.image
    /\ draws' = st.self.draws
    /\ sweep' = st.sweep
    /\ result' = st.result
    /\ accepted' = st.accepted
    /\ rows' = st.rows

\* One iteration of spectrumsensor.run(sweep_config, plotter.callback): the
\* sweep is handed to the callback.
Deliver(st, data) ==
    LET r == callback(st.self, data)
    IN  [self |-> r.self,
         sweep |-> data,
         result |-> r.ret,
         accepted |-> IF r.ret = "True" THEN st.accepted + 1 ELSE st.accepted,
         rows |-> IF r.ret = "True" THEN Append(st.rows, r.data) ELSE st.rows]

RECURSIVE RunLoop(_, _)
\* n iterations in a row, each on a sweep of the configured length: the
\* first half of them, then the rest.  An exception raised by the callback
\* ends the loop.
RunLoop(st, n) ==
    IF n = 0 THEN st
    ELSE IF n = 1 THEN Deliver(st, Ramp(Size(st.self.x1), st.accepted + 1))
    ELSE LET half == RunLoop(st, n \div 2)
         IN  IF half.result = "ValueError" THEN half
             ELSE RunLoop(half, n - (n \div 2))

\* The sensor delivers one sweep.
Run(limit, varied) ==
    /\ pc = "run"
    /\ accepted < limit
    /\ \E data \in Sweeps(accepted + 1, varied) : Becomes(Deliver(Current, data))
    /\ UNCHANGED mainVars

\* The sensor delivers the first Batch sweeps, all of the configured length,
\* before the plotter is looked at again.
RunBatch ==
    /\ pc = "run"
    /\ accepted = 0
    /\ Becomes(RunLoop(Current, Batch))
    /\ UNCHANGED mainVars

\* Short runs over every kind of sweep.
Next == Run(ShortSweeps, TRUE)

Spec == Init /\ [][Next]_vars

\* Long runs, past the point where the buffer is full.
NextLong == Run(MaxSweeps, FALSE) \/ RunBatch

SpecLong == Init /\ [][NextLong]_vars

(***************************************************************************)
(* Specification of main() up to the start of the acquisition loop         *)
(***************************************************************************)
\* Values tried for each option: the defaults, the limits of the RF range,
\* values inside it and values outside it.
StartFreqs == {0, RF_LOWER, DEFAULT_LOWER, DEFAULT_UPPER - 1000000, 600000000, RF_UPPER}

EndFreqs == {0, RF_LOWER + 1, DEFAULT_LOWER, DEFAULT_UPPER, RF_UPPER - 1, RF_UPPER}

Steps == {-1, MIN_STEP, 500000, DEFAULT_STEP, 20000000}

NoOptions == [start_freq |-> 0, end_freq |-> 0, step |-> 0]

NoCfg == [lower_freq |-> 0, upper_freq |-> 0, step |-> 0]

InitMain ==
    /\ pc = "parse"
    /\ options = NoOptions
    /\ cfg = NoCfg
    /\ A = <<>>
    /\ image = <<>>
    /\ x1 = <<>>
    /\ x2 = <<>>
    /\ line = 0
    /\ draws = 0
    /\ interpolator = <<>>
    /\ sweep = <<>>
    /\ result = "none"
    /\ accepted = 0
    /\ rows = <<>>

\* options, args = parser.parse_args()
ParseArgs ==
    /\ pc = "parse"
    /\ \E s \in StartFreqs, e \in EndFreqs, d \in Steps :
          options' = [start_freq |-> s, end_freq |-> e, step |-> d]
    /\ pc' = "test"
    /\ UNCHANGED <<cfg, plotterVars>>

\* Test the input parameters
TestParameters ==
    /\ pc = "test"
    /\ cfg' = Validated(options)
    /\ pc' = "plot"
    /\ UNCHANGED <<options, plotterVars>>

\* plotter = VesnaSpectrumPlot(lower_freq, upper_freq, step)
Construct ==
    /\ pc = "plot"
    /\ IF InitRaises(cfg.lower_freq, cfg.upper_freq, cfg.step)
       THEN /\ pc' = "ValueError"
            /\ UNCHANGED <<A, image, x1, x2, line, draws, interpolator>>
       ELSE LET p == NewPlotter(cfg.lower_freq, cfg.upper_freq, cfg.step)
            IN  /\ A' = p.A
                /\ image' = p.image
                /\ x1' = p.x1
                /\ x2' = p.x2
                /\ line' = p.line
                /\ draws' = p.draws
                /\ interpolator' = p.interpolator
                /\ pc' = "run"
    /\ UNCHANGED <<options, cfg, sweep, result, accepted, rows>>

NextMain == ParseArgs \/ TestParameters \/ Construct

SpecMain == InitMain /\ [][NextMain]_vars

(***************************************************************************)
(* Properties                                                              *)
(***************************************************************************)
\* The step is a callback invocation that returned True.
Accepting == accepted' = accepted + 1

\* A sweep of as many samples as the source axis has points, fewer than M.
ValidSweep(data) == Size(data) = Size(x1) /\ Size(data) < M

\* A sweep of a length other than the configured one, or with a non-finite
\* sample.
Malformed(data) == Size(data) # Size(x1) \/ (\E i \in DOMAIN data : data[i] = NaN)

\* C1 as stated: once n >= H sweeps have been accepted, row i of the buffer
\* self.A holds the interpolated row of sweep n-H+1+i, the newest sweep in
\* the last row.
C1_BufferHoldsLastH ==
    accepted >= H =>
        \A i \in 0 .. H - 1 : A[i] = rows[accepted - H + 1 + i]

\* C1 amended: once n >= H sweeps have been accepted, it is the array handed
\* to the display that holds the last H sweeps in time order (row i is sweep
\* n-H+1+i); the buffer left in self.A holds the last H-1 sweeps in rows
\* 0..H-2 (row i is sweep n-H+2+i) and the oldest of the H, sweep n-H+1, in
\* row H-1.
C1_DisplayHoldsLastH ==
    accepted >= H =>
        /\ \A i \in 0 .. H - 1 : image[i] = rows[accepted - H + 1 + i]
        /\ \A i \in 0 .. H - 2 : A[i] = rows[accepted - H + 2 + i]
        /\ A[H - 1] = rows[accepted - H + 1]

\* H+1 sweeps accepted: the display shows sweeps 2..H+1.
C1_Witness ==
    /\ accepted = H + 1
    /\ image[0] = rows[2]
    /\ image[H - 1] = rows[H + 1]
    /\ rows[2] # rows[H + 1]

\* C2: the write cursor is a row index of the buffer in every reachable
\* state, 0 <= line < H.
C2_CursorInBounds == line \in 0 .. H - 1

\* A sweep was rejected after the buffer had wrapped.
C2_Witness == line = H - 1 /\ accepted > H /\ result = "ValueError"

\* C3 as stated: every sweep of M or more samples makes callback return
\* False and leaves the buffer, the cursor and the display alone.
C3_SkipAny ==
    [][Size(sweep') >= M =>
          /\ result' = "False"
          /\ UNCHANGED <<A, line, x1, x2, image, draws>>]_vars

\* C3 amended: every sweep of M or more samples that has as many samples as
\* the source axis has points makes callback return False and leaves the
\* buffer, the cursor, the axes and the display alone (so later sweeps are
\* processed as if it had not arrived).
C3_SkipConfigured ==
    [][(Size(sweep') >= M /\ Size(sweep') = Size(x1)) =>
          /\ result' = "False"
          /\ UNCHANGED <<A, line, x1, x2, image, draws>>]_vars

\* A sweep of M samples was skipped.
C3_Witness == result = "False" /\ Size(sweep) = M /\ Size(x1) = M

C4_Filling == accepted <= H - 1 => (line = accepted /\ A = image)

C4_Pinned == accepted >= H => (line = H - 1 /\ A # image)

C4_Step ==
    /\ line' >= line
    /\ (accepted >= H /\ ValidSweep(sweep')) =>
          /\ result' = "True"
          /\ Accepting
          /\ \A i \in 0 .. H - 2 : image'[i] = image[i + 1]

\* C4: after k <= 255 accepted sweeps the cursor is k and the buffer has not
\* been rolled (it is the array on display); from the 256th on the cursor
\* is 255 and the buffer is rolled; the cursor never decreases and every
\* later valid sweep is accepted and scrolls the display up by one row.
C4_WrapAt256 == [](C4_Filling /\ C4_Pinned) /\ [][C4_Step]_vars

\* Two sweeps past the first wrap.
C4_Witness == accepted = H + 1 /\ line = H - 1 /\ result = "True"

\* C5: a malformed sweep (wrong sample count, or a non-finite sample) makes
\* callback raise an error and leaves buffer and cursor unchanged.
C5_MalformedRejected ==
    [][Malformed(sweep') =>
          /\ result' = "ValueError"
          /\ UNCHANGED <<A, line>>]_vars

\* The values main hands on, once the parameters are tested.
Tested == pc \in {"plot", "run", "ValueError"}

\* C6: the values main hands to the plotter and the sensor are within the
\* RF range, ordered, and the step is above MIN_STEP and below the band
\* width.
C6_Validated ==
    Tested =>
        /\ RF_LOWER < cfg.lower_freq /\ cfg.lower_freq < RF_UPPER
        /\ RF_LOWER < cfg.upper_freq /\ cfg.upper_freq < RF_UPPER
        /\ cfg.lower_freq < cfg.upper_freq
        /\ MIN_STEP < cfg.step /\ cfg.step < cfg.upper_freq - cfg.lower_freq

\* C7: the source axis of every plotter main constructs has at least two
\* points.
C7_AtLeastTwoPoints ==
    Tested => NSteps(cfg.lower_freq, cfg.upper_freq, cfg.step) >= 2

\* C8: a callback invocation that returns True redraws exactly once, and the
\* array it hands to the display holds the sweep's interpolated row at the
\* cursor; one that returns False neither redraws nor hands anything over.
C8_Handoff ==
    [][/\ result' = "True" => accepted' > accepted
       /\ Accepting =>
             /\ draws' = draws + 1
             /\ rows'[accepted'] = Interpolate(x1, sweep', x2)
             /\ image'[line] = rows'[accepted']
       /\ result' = "False" => (draws' = draws /\ image' = image)]_vars

\* A redraw by a wrapping sweep.
C8_Witness == accepted > H /\ result = "True" /\ draws = accepted + 1

\* C9: the row interpolated from a valid sweep has M values, the first equal
\* to the first sample and the last equal to the last sample.
C9_RowEnds ==
    (result = "True" /\ ~HasNaN(sweep)) =>
        LET row == rows[accepted]
        IN  /\ DOMAIN row = 0 .. M - 1
            /\ row[0] = sweep[0] * Scale
            /\ row[M - 1] = sweep[Size(sweep) - 1] * Scale

\* A row interpolated from a sweep that rises from its first to its last
\* sample.
C9_Witness ==
    /\ result = "True"
    /\ ~HasNaN(sweep)
    /\ sweep[0] < sweep[Size(sweep) - 1]
    /\ rows[accepted][0] < rows[accepted][M - 1]

\* C10: an accepted sweep that finds the cursor at or below H-2 overwrites
\* row `line` with its interpolated row, leaves the other rows as they were
\* and moves the cursor down by one.
C10_FillingStep ==
    [][(Accepting /\ line <= H - 2) =>
          /\ A'[line] = rows'[accepted']
          /\ \A r \in (0 .. H - 1) \ {line} : A'[r] = A[r]
          /\ line' = line + 1]_vars

\* The last filling step: the sweep written at row H-2.
C10_Witness == accepted = H - 1 /\ line = H - 1 /\ result = "True"

\* A sweep of finite samples, of the configured length, on a source axis of
\* two or three points.
SmallSweep(data) ==
    /\ Size(data) = Size(x1)
    /\ Size(x1) >= 2
    /\ Size(x1) < CUBIC_MIN
    /\ ~HasNaN(data)

\* C11: a sweep of the configured length N with 2 <= N < 4 is tolerated:
\* callback returns True, and the row it writes at the cursor has M values.
C11_SmallSweepTolerated ==
    [][SmallSweep(sweep') =>
          /\ result' = "True"
          /\ Accepting
          /\ DOMAIN rows'[accepted'] = 0 .. M - 1
          /\ image'[line] = rows'[accepted']]_vars

\* A sweep of finite samples, of the configured length, that the cubic
\* interpolation is defined for.
FiniteSweep(data) ==
    ValidSweep(data) /\ Size(data) >= CUBIC_MIN /\ ~HasNaN(data)

\* C12: every valid sweep, whatever the range of its samples, makes callback
\* return True, and the row written at the cursor (the row of the displayed
\* array, and below the last row also the row of the buffer left behind) is
\* the interpolated row value for value, nothing clamped.
C12_NoClamping ==
    [][FiniteSweep(sweep') =>
          LET data == Interpolate(x1, sweep', x2)
          IN  /\ result' = "True"
              /\ Accepting
              /\ \A c \in 0 .. M - 1 : image'[line][c] = data[c]
              /\ line <= H - 2 => \A c \in 0 .. M - 1 : A'[line][c] = data[c]]_vars

\* A row with values below FLOOR and values above CEILING sits in the buffer
\* as interpolated.
C12_Witness ==
    /\ result = "True"
    /\ FiniteSweep(sweep)
    /\ line >= 1
    /\ A[line - 1] = Interpolate(x1, sweep, x2)
    /\ \E c \in 0 .. M - 1 : A[line - 1][c] < FLOOR * Scale
    /\ \E c \in 0 .. M - 1 : A[line - 1][c] > CEILING * Scale

C14_Snapshot ==
    accepted >= H =>
        /\ \A i \in 0 .. H - 1 : image[i] = rows[accepted - H + 1 + i]
        /\ \A i \in 0 .. H - 1 : A[i] = image[(i + 1) % H]
        /\ A[H - 2] = rows[accepted]
        /\ A[H - 1] = rows[accepted - H + 1]
        /\ line = H - 1

\* The next accepted sweep is displayed in row H-1, below the rows the buffer
\* was left with.
C14_NextOverwrites ==
    (Accepting /\ accepted >= H) =>
        /\ \A i \in 0 .. H - 2 : image'[i] = A[i]
        /\ image'[H - 1] = rows'[accepted']
        /\ image'[H - 1] = Interpolate(x1, sweep', x2)

\* C14: once n >= H sweeps have been accepted, the array handed to the
\* display, taken after the row write and before the roll, shows sweeps
\* n-H+1..n in order with the newest in row H-1; the buffer left behind is
\* that array rotated up by one row, the newest sweep in row H-2 and the
\* oldest in row H-1, where the cursor stays; the next accepted sweep
\* overwrites that row, the other rows being displayed as they were left.
C14_SnapshotBeforeRoll == []C14_Snapshot /\ [][C14_NextOverwrites]_vars

\* H+1 sweeps accepted: the display ends with sweep H+1, the buffer left
\* behind with sweep H+1 in row H-2 and sweep 2 in row H-1.
C14_Witness ==
    /\ accepted = H + 1
    /\ image[H - 1] = rows[H + 1]
    /\ A[H - 2] = rows[H + 1]
    /\ A[H - 1] = rows[2]
    /\ A[H - 1] # A[H - 2]
    /\ A # image

=============================================================================
